---- MODULE Spec2Model ----
(***************************************************************************)
(* State-machine model of mnc/xengine_beamformer_control.py:               *)
(*   AllowedPipelineFailure, _BEAM_DEST_LOCK, BeamPointingControl,         *)
(*   BeamTracker.                                                          *)
(*                                                                         *)
(* A remote pipeline call is modelled as a program position: a controller  *)
(* whose pc names a remote method is inside that call; the action of the   *)
(* same name is the call's return, which either succeeds (and has its      *)
(* effect on the pipeline) or raises (and is absorbed by                   *)
(* AllowedPipelineFailure.__exit__).                                       *)
(***************************************************************************)
EXTENDS Integers, Sequences, FiniteSets, TLC

\* ------------------------------------------------------------ constants
\* Program constants (values of the source).
NPOL == 2
NPIPELINE_SUBBAND == 2
NDEST == 16

\* Scaled-down program sizes and model bounds.
\* NSTAND is 352 and NCHAN_PIPELINE is 96 in the source.
NSTAND == 2
NCHAN_PIPELINE == 2
\* largest fleet (len(self.pipelines)) of the broadcast specification
MaxPipe == 2

\* channel width in model frequency units (mnc.common.chan_to_freq is linear
\* in the channel number); 2 units per channel so that a frequency half-way
\* between two channel centres is representable.
CHAN_BW == 2

\* The controller instances (one thread each) and the "no thread" lock owner.
Ctl == {1, 2}
NoOwner == 0

\* Destinations a caller passes / a pipeline initially reports.
DestArgs == {<<"10.41.0.25", 20001>>, <<"10.41.0.26", 20002>>}
VlbiArgs == {<<"10.41.0.25", 21001>>, <<"10.41.0.26", 21002>>}
NoDest == <<"none", 0>>

VARIABLES
  npipe,        \* len(self.pipelines): the fleet is 1..npipe, shared by the controllers
  bifrost,      \* pipeline p's reported channel metadata [chan0, nchan]
  destTab,      \* pipeline p's reported destination table [addrs, ports]
  vlbiDest,     \* pipeline p's VLBI destination
  bfSlots,      \* pipeline p's delay/amplitude coefficients: set of [slot, delays, amps]
  calGains,     \* pipeline p's calibration gains: set of <<slot, antpol, block>>
  lock,         \* owner of _BEAM_DEST_LOCK
  beam,         \* self.beam of each controller
  freqs,        \* self.freqs of each controller (sequence of frequency arrays)
  station,      \* self.station.antennas: sequence of enz positions
  _cal_set,     \* self._cal_set of each controller
  _gain,        \* self._gain
  _weighting,   \* self._weighting (length NSTAND*NPOL)
  calfiles,     \* calibration tables still to be loaded into each controller
  pc,           \* position of each controller's thread
  idx,          \* loop index over self.pipelines / subband_pipelines (1-based)
  args,         \* arguments and locals of the operation in progress
  lastOp,       \* the public method last called on the controller
  ret,          \* "none" | "running" | "returned" | "raised"
  calls,        \* successful command calls received by pipeline p in this broadcast
  warns,        \* AllowedPipelineFailure warnings naming pipeline p in this broadcast
  failedP,      \* pipelines with a raising remote call in this broadcast
  policyWarn,   \* policy warnings emitted by the operation in progress
  tracker       \* BeamTracker.track locals and the wall clock

pipeVars == <<npipe, bifrost, destTab, vlbiDest, bfSlots, calGains>>
selfVars == <<beam, freqs, station, _cal_set, _gain, _weighting, calfiles>>
ctlVars  == <<pc, idx, args, lastOp, ret, calls, warns, failedP, policyWarn>>
vars == <<pipeVars, lock, selfVars, ctlVars, tracker>>

Pipes == 1..npipe

\* ------------------------------------------------------------ helpers
Max(S) == CHOOSE x \in S : \A y \in S : y <= x

ZeroCount == [p \in Pipes |-> 0]

\* Mutant of AllowedPipelineFailure_exit: the exception is suppressed without
\* a warning.
AllowedPipelineFailure_exit_silent(c, p) ==
  /\ warns' = warns
  /\ failedP' = [failedP EXCEPT ![c] = @ \cup {p}]

\* with AllowedPipelineFailure(p): the body raised -> one warning naming p,
\* the exception is suppressed (__exit__ returns True).
AllowedPipelineFailure_exit(c, p) ==
  /\ warns' = [warns EXCEPT ![c][p] = @ + 1]
  /\ failedP' = [failedP EXCEPT ![c] = @ \cup {p}]

\* A successful command call on pipeline p.
Received(c, p) == calls' = [calls EXCEPT ![c][p] = @ + 1]

\* Entering a public method of an idle controller; w are the policy warnings
\* the method emits on entry.
Enter(c, op, w) ==
  /\ pc[c] = "idle"
  /\ lastOp' = [lastOp EXCEPT ![c] = op]
  /\ policyWarn' = [policyWarn EXCEPT ![c] = w]

\* The start of a loop over pipelines: the per-broadcast observations start afresh.
Broadcast(c) ==
  /\ calls' = [calls EXCEPT ![c] = ZeroCount]
  /\ warns' = [warns EXCEPT ![c] = ZeroCount]
  /\ failedP' = [failedP EXCEPT ![c] = {}]

NoArgs ==
  [addr |-> "none", port |-> 0, addrs |-> <<>>, ports |-> <<>>,
   pol |-> 0, delays |-> <<>>, amps |-> <<>>, caller |-> "none",
   sub |-> <<>>, ant |-> 0, freq |-> 0, found |-> 0, dir |-> <<>>,
   hist |-> <<>>, calfreq |-> <<>>]

\* Leaving a public method.
Return(c, how) ==
  /\ pc' = [pc EXCEPT ![c] = "idle"]
  /\ ret' = [ret EXCEPT ![c] = how]

\* ------------------------------------------------------------ set_beam_dest
\* while len(x) < 16: x.extend(x) -- doubles the list; never ends on an empty one.
RECURSIVE Extend16(_)
Extend16(s) == IF Len(s) < NDEST THEN Extend16(s \o s) ELSE s

\* x = x[:16] after the doubling loop (defined for a non-empty list).
Pad16(s) == SubSeq(Extend16(s), 1, NDEST)

\* addrs[self.beam-1] = addr (Python index beam-1 is position beam here).
PatchSlot(s, b, v) == [s EXCEPT ![b] = v]

\* Mutant of LockFree: set_beam_dest does not wait for the lock.
LockFree_unguarded(c) == TRUE

\* RLock.acquire by thread c: free, or already owned by c.
LockFree(c) == lock \in {NoOwner, c}

\* The next position of a "for p in self.pipelines" loop whose body is `at`;
\* `done` is what follows the loop.
NextPipeline(c, at, done) ==
  IF idx[c] < npipe
    THEN /\ idx' = [idx EXCEPT ![c] = @ + 1]
         /\ pc' = [pc EXCEPT ![c] = at]
         /\ ret' = ret
    ELSE /\ idx' = [idx EXCEPT ![c] = 0]
         /\ done

set_beam_dest(c, addr, port) ==
  /\ Enter(c, "set_beam_dest", {})
  /\ Broadcast(c)
  /\ args' = [args EXCEPT ![c] = [NoArgs EXCEPT !.addr = addr, !.port = port]]
  /\ pc' = [pc EXCEPT ![c] = "acquire"]
  /\ ret' = [ret EXCEPT ![c] = "running"]
  /\ UNCHANGED <<pipeVars, lock, selfVars, idx, tracker>>

\* with _BEAM_DEST_LOCK: (blocks until the lock can be taken)
BeamDestLockAcquire(c) ==
  /\ pc[c] = "acquire"
  /\ LockFree(c)
  /\ lock' = c
  /\ idx' = [idx EXCEPT ![c] = 1]
  /\ pc' = [pc EXCEPT ![c] = "get_bifrost_status"]
  /\ UNCHANGED <<pipeVars, selfVars, args, lastOp, ret, calls, warns, failedP,
                 policyWarn, tracker>>

\* End of the with block: the lock is released and the method returns.
BeamDestLockRelease(c) ==
  /\ lock' = NoOwner
  /\ Return(c, "returned")

\* p.beamform_output.get_bifrost_status() returns or raises; on return the
\* lists are parsed, padded to 16, cut to 16 and patched at slot beam-1.
get_bifrost_status(c) ==
  /\ pc[c] = "get_bifrost_status"
  /\ LET p == idx[c] IN
     \/ /\ Len(destTab[p].addrs) > 0 /\ Len(destTab[p].ports) > 0
        /\ args' = [args EXCEPT
              ![c].addrs = PatchSlot(Pad16(destTab[p].addrs), beam[c], args[c].addr),
              ![c].ports = PatchSlot(Pad16(destTab[p].ports), beam[c], args[c].port)]
        /\ pc' = [pc EXCEPT ![c] = "set_destination"]
        /\ UNCHANGED <<lock, idx, ret, calls, warns, failedP>>
     \/ /\ Len(destTab[p].addrs) = 0 \/ Len(destTab[p].ports) = 0
        /\ pc' = [pc EXCEPT ![c] = "extend_loop"]
        /\ UNCHANGED <<lock, idx, args, ret, calls, warns, failedP>>
     \/ /\ AllowedPipelineFailure_exit(c, p)
        /\ NextPipeline(c, "get_bifrost_status", BeamDestLockRelease(c))
        /\ IF idx[c] < npipe THEN lock' = lock ELSE TRUE
        /\ UNCHANGED <<args, calls>>
  /\ UNCHANGED <<pipeVars, selfVars, lastOp, policyWarn, tracker>>

\* while len(addrs) < 16: addrs.extend(addrs) on an empty list: the loop
\* condition stays true and the list stays empty.
extend_loop(c) ==
  /\ pc[c] = "extend_loop"
  /\ UNCHANGED vars

\* p.beamform_output.set_destination(addrs, ports) returns or raises.
set_destination(c) ==
  /\ pc[c] = "set_destination"
  /\ LET p == idx[c] IN
     \/ /\ destTab' = [destTab EXCEPT ![p] = [addrs |-> args[c].addrs,
                                              ports |-> args[c].ports]]
        /\ Received(c, p)
        /\ UNCHANGED <<warns, failedP>>
     \/ /\ AllowedPipelineFailure_exit(c, p)
        /\ UNCHANGED <<destTab, calls>>
  /\ NextPipeline(c, "get_bifrost_status", BeamDestLockRelease(c))
  /\ IF idx[c] < npipe THEN lock' = lock ELSE TRUE
  \* the local lists are dead after the call
  /\ args' = [args EXCEPT ![c].addrs = <<>>, ![c].ports = <<>>]
  /\ UNCHANGED <<npipe, bifrost, vlbiDest, bfSlots, calGains, selfVars,
                 lastOp, policyWarn, tracker>>

\* ------------------------------------------------------------ set_beam_vlbi_dest
\* Mutant of set_beam_vlbi_dest: the beam is not validated.
set_beam_vlbi_dest_any_beam(c, addr, port) ==
  /\ Enter(c, "set_beam_vlbi_dest", {})
  /\ Broadcast(c)
  /\ args' = [args EXCEPT ![c] = [NoArgs EXCEPT !.addr = addr, !.port = port]]
  /\ ret' = [ret EXCEPT ![c] = "running"]
  /\ pc' = [pc EXCEPT ![c] = "vlbi_set_destination"]
  /\ idx' = [idx EXCEPT ![c] = 1]
  /\ UNCHANGED <<pipeVars, lock, selfVars, tracker>>

set_beam_vlbi_dest(c, addr, port) ==
  /\ Enter(c, "set_beam_vlbi_dest", {})
  /\ Broadcast(c)
  /\ args' = [args EXCEPT ![c] = [NoArgs EXCEPT !.addr = addr, !.port = port]]
  /\ IF beam[c] # 1
       THEN /\ ret' = [ret EXCEPT ![c] = "raised"]     \* RuntimeError
            /\ UNCHANGED <<pc, idx>>
       ELSE /\ ret' = [ret EXCEPT ![c] = "running"]
            /\ pc' = [pc EXCEPT ![c] = "vlbi_set_destination"]
            /\ idx' = [idx EXCEPT ![c] = 1]
  /\ UNCHANGED <<pipeVars, lock, selfVars, tracker>>

\* p.beamform_vlbi_output.set_destination(addr, port) returns or raises.
vlbi_set_destination(c) ==
  /\ pc[c] = "vlbi_set_destination"
  /\ LET p == idx[c] IN
     \/ /\ vlbiDest' = [vlbiDest EXCEPT ![p] = <<args[c].addr, args[c].port>>]
        /\ Received(c, p)
        /\ UNCHANGED <<warns, failedP>>
     \/ /\ AllowedPipelineFailure_exit(c, p)
        /\ UNCHANGED <<vlbiDest, calls>>
  /\ NextPipeline(c, "vlbi_set_destination", Return(c, "returned"))
  /\ UNCHANGED <<npipe, bifrost, destTab, bfSlots, calGains, lock, selfVars, args,
                 lastOp, policyWarn, tracker>>

\* ------------------------------------------------------------ set_beam_delays
\* Mutant of BeamSlot: the beam index is not doubled.
BeamSlot_unpaired(b, pol) == (b - 1) + pol

\* 2*(self.beam-1)+pol
BeamSlot(b, pol) == 2 * (b - 1) + pol

\* Mutant of Amps: the gain is written to both polarizations.
Amps_all_pols(c, pol) ==
  [i \in 1..(NSTAND * NPOL) |-> _gain[c] * _weighting[c][i]]

\* amps = zeros; amps[pol::NPOL] = self._gain; amps *= self._weighting
\* (position i here is Python index i-1).
Amps(c, pol) ==
  [i \in 1..(NSTAND * NPOL) |->
     (IF (i - 1) % NPOL = pol THEN _gain[c] ELSE 0) * _weighting[c][i]]

\* The body of set_beam_delays(delays, pol) up to the first remote call;
\* caller is "none" for a direct call, and dir is the direction of the
\* set_beam_pointing call that makes it (<<>> when there is none).
BeginDelays(c, delays, pol, caller, dir) ==
  /\ Broadcast(c)
  /\ args' = [args EXCEPT ![c] = [NoArgs EXCEPT !.delays = delays, !.pol = pol,
                                                !.amps = Amps(c, pol),
                                                !.caller = caller,
                                                !.dir = dir]]
  /\ IF Len(delays) # NSTAND * NPOL
       THEN /\ ret' = [ret EXCEPT ![c] = "raised"]     \* AssertionError
            /\ pc' = [pc EXCEPT ![c] = "idle"]
            /\ idx' = idx
       ELSE /\ ret' = [ret EXCEPT ![c] = "running"]
            /\ pc' = [pc EXCEPT ![c] = "update_delays"]
            /\ idx' = [idx EXCEPT ![c] = 1]

set_beam_delays(c, delays, pol) ==
  /\ Enter(c, "set_beam_delays", {})
  /\ BeginDelays(c, delays, pol, "none", <<>>)
  /\ UNCHANGED <<pipeVars, lock, selfVars, tracker>>

\* p.beamform.update_delays(2*(self.beam-1)+pol, delays, amps) returns
\* (ok) or raises (~ok, absorbed by AllowedPipelineFailure).
UpdateDelaysReturn(c, ok) ==
  /\ pc[c] = "update_delays"
  /\ LET p == idx[c]
         a == args[c] IN
     IF ok
       THEN /\ bfSlots' = [bfSlots EXCEPT ![p][BeamSlot(beam[c], a.pol)] =
                                            <<a.delays, a.amps>>]
            /\ Received(c, p)
            /\ UNCHANGED <<warns, failedP>>
       ELSE /\ AllowedPipelineFailure_exit(c, p)
            /\ UNCHANGED <<bfSlots, calls>>
  /\ IF idx[c] < npipe
       THEN /\ idx' = [idx EXCEPT ![c] = @ + 1]
            /\ pc' = pc
       ELSE /\ idx' = [idx EXCEPT ![c] = 0]
            /\ pc' = [pc EXCEPT ![c] = "pb_finish"]
  /\ UNCHANGED <<npipe, bifrost, destTab, vlbiDest, calGains, lock, selfVars,
                 args, lastOp, ret, policyWarn>>

update_delays(c) ==
  /\ \E ok \in BOOLEAN : UpdateDelaysReturn(c, ok)
  /\ UNCHANGED tracker

\* pb.finish(): set_beam_delays returns; set_beam_pointing, when it is the
\* caller, goes on with the next polarization ("for pol in range(NPOL)").
pb_finish(c) ==
  /\ pc[c] = "pb_finish"
  /\ LET a == args[c] IN
     IF a.caller = "set_beam_pointing" /\ a.pol + 1 < NPOL
       THEN BeginDelays(c, a.delays, a.pol + 1, a.caller, a.dir)
       ELSE /\ Return(c, "returned")
            /\ UNCHANGED <<idx, args, calls, warns, failedP>>
  /\ UNCHANGED <<pipeVars, lock, selfVars, lastOp, policyWarn, tracker>>

\* ------------------------------------------------------------ set_beam_gain, set_beam_weighting
\* set_beam_gain(gain): assert(gain >= 0); self._gain = float(gain)
set_beam_gain(c, gain) ==
  /\ Enter(c, "set_beam_gain", {})
  /\ IF gain >= 0
       THEN /\ _gain' = [_gain EXCEPT ![c] = gain]
            /\ ret' = [ret EXCEPT ![c] = "returned"]
       ELSE /\ _gain' = _gain
            /\ ret' = [ret EXCEPT ![c] = "raised"]     \* AssertionError
  /\ UNCHANGED <<pipeVars, lock, beam, freqs, station, _cal_set, _weighting,
                 calfiles, pc, idx, args, calls, warns, failedP, tracker>>

\* Weighting functions a caller passes: of the distance from the array
\* centre, with values inside and outside [0, 1].
WeightFns == {"uniform", "none", "core", "outer", "double"}
Weigh(fnc, r) ==
  CASE fnc = "uniform" -> 1
    [] fnc = "none" -> 0
    [] fnc = "core" -> IF r < 5 THEN 1 ELSE 0
    [] fnc = "outer" -> IF r < 5 THEN -1 ELSE 1
    [] fnc = "double" -> 2

\* numpy.clip(v, 0, 1)
Clip01(v) == IF v < 0 THEN 0 ELSE IF v > 1 THEN 1 ELSE v

\* numpy.sqrt(x[0]**2 + x[1]**2): the distances of the stations modelled
\* are whole numbers of metres.
Dist(enz) ==
  LET n == enz[1] * enz[1] + enz[2] * enz[2] IN
  CHOOSE r \in 0..n : r * r <= n /\ n < (r + 1) * (r + 1)

\* numpy.repeat(x, 2)
Repeat2(x) == [i \in 1..(Len(x) * 2) |-> x[((i - 1) \div 2) + 1]]

\* set_beam_weighting(fnc)
set_beam_weighting(c, fnc) ==
  /\ Enter(c, "set_beam_weighting", {})
  /\ _weighting' = [_weighting EXCEPT ![c] =
        Repeat2([a \in 1..Len(station[c]) |-> Clip01(Weigh(fnc, Dist(station[c][a])))])]
  /\ ret' = [ret EXCEPT ![c] = "returned"]
  /\ UNCHANGED <<pipeVars, lock, beam, freqs, station, _cal_set, _gain,
                 calfiles, pc, idx, args, calls, warns, failedP, tracker>>

\* ------------------------------------------------------------ set_beam_pointing
\* A pointing direction is given as the unit vector of lines 310-312,
\* (cos(alt)sin(az), cos(alt)cos(az), sin(alt)), scaled by DIR_SCALE to integers.
DIR_SCALE == 5

Dot(u, v) == u[1] * v[1] + u[2] * v[2] + u[3] * v[3]

zen == <<0, 0, 1>>

\* assert(alt >= 0 and alt <= pi/2): the direction is not below the horizon.
\* (az is reduced to [0, 2*pi) by the choice of the vector.)
ValidPointing(dir) == dir[3] >= 0

\* Mutant of GeomDelay: the delay to zenith is not subtracted.
GeomDelay_absolute(dir, enz) == Dot(dir, enz)

\* dir_delay - zen_delay for one antenna, in units of 1/DIR_SCALE m / speedOfLight.
GeomDelay(dir, enz) == Dot(dir, enz) - DIR_SCALE * Dot(zen, enz)

\* numpy.repeat(x, NPOL)
Repeat(x) == [i \in 1..(Len(x) * NPOL) |-> x[((i - 1) \div NPOL) + 1]]

SeqMax(x) == Max({x[i] : i \in 1..Len(x)})

\* Mutant of Normalize: the vector is negated without the shift by its maximum.
Normalize_unshifted(x) == [i \in 1..Len(x) |-> 0 - x[i]]

\* Mutant of Normalize: the subtraction is the other way round.
Normalize_swapped(x) == [i \in 1..Len(x) |-> x[i] - SeqMax(x)]

\* delays = delays.max() - delays
Normalize(x) == [i \in 1..Len(x) |-> SeqMax(x) - x[i]]

\* The delay vector set_beam_pointing computes (lines 304-319).
PointingDelays(c, dir) ==
  Normalize(Repeat([a \in 1..Len(station[c]) |-> GeomDelay(dir, station[c][a])]))

\* cal_set property: all(self._cal_set)
cal_set(c) == \A k \in 1..Len(_cal_set[c]) : _cal_set[c][k]

\* set_beam_pointing up to the first remote call; the caller adds what
\* happens to the tracker.
Pointing(c, dir) ==
  /\ Enter(c, "set_beam_pointing",
           IF cal_set(c) THEN {} ELSE {"Calibration is not set"})
  /\ IF ~ValidPointing(dir)
       THEN /\ ret' = [ret EXCEPT ![c] = "raised"]     \* AssertionError
            /\ UNCHANGED <<pc, idx, args, calls, warns, failedP>>
       ELSE BeginDelays(c, PointingDelays(c, dir), 0, "set_beam_pointing", dir)
  /\ UNCHANGED <<pipeVars, lock, selfVars>>

set_beam_pointing(c, dir) ==
  /\ Pointing(c, dir)
  /\ UNCHANGED tracker

\* ------------------------------------------------------------ construction
\* mnc.common.chan_to_freq: linear in the channel number.
chan_to_freq(chan) == chan * CHAN_BW

\* freq = chan_to_freq(metadata['chan0'] + numpy.arange(metadata['nchan']))
FreqArray(m) == [i \in 1..m.nchan |-> chan_to_freq(m.chan0 + (i - 1))]

\* Destination tables a pipeline may report before any controller has patched
\* them: full, short (to be doubled), over-long (to be cut), and empty.
Const16(v) == [i \in 1..NDEST |-> v]
FullTable == [addrs |-> Const16("0.0.0.0"), ports |-> Const16(0)]
InitTables ==
  { FullTable,
    [addrs |-> <<"10.41.0.1", "10.41.0.2", "10.41.0.3">>,
     ports |-> [i \in 1..(NDEST + 1) |-> 20000 + i]],
    [addrs |-> <<>>, ports |-> <<>>] }

\* Fleets of n pipelines serving consecutive blocks of NCHAN_PIPELINE channels.
TiledFleet(n) ==
  [p \in 1..n |-> [chan0 |-> (p - 1) * NCHAN_PIPELINE, nchan |-> NCHAN_PIPELINE]]

\* Antenna positions (east, north, zenith) in metres.
DefaultStation == [a \in 1..NSTAND |-> <<3 * (a - 1), 4 * (a - 1), a - 1>>]

NoCoeffs == [s \in 0..(2 * NDEST - 1) |-> <<>>]

\* BeamTracker.track: its position, the wall clock time.time() (now) in
\* units of the 0.01 s sleep increment, and its locals.
TrackerIdle ==
  [pc |-> "idle", now |-> 0, t |-> 0, t_stop |-> 0, t_mark |-> 0,
   t_sleep_until |-> 0, update_interval |-> 0, cancelled |-> FALSE,
   t_used |-> 0]

\* The state after BeamPointingControl.__init__ of every controller, for a
\* fleet reporting metadata `md` and destination table `tab`, beams `bm`,
\* antenna positions `st`, and the calibration tables `allfiles` found for
\* each controller; Constructed is the case where `files` are found for
\* controller 1 and none for the other.
ConstructedWith(md, tab, bm, st, allfiles) ==
  /\ npipe = Len(md)
  /\ bifrost = md
  /\ destTab = [p \in 1..Len(md) |-> tab]
  /\ vlbiDest = [p \in 1..Len(md) |-> NoDest]
  /\ bfSlots = [p \in 1..Len(md) |-> NoCoeffs]
  /\ calGains = [p \in 1..Len(md) |-> {}]
  /\ lock = NoOwner
  /\ beam = bm
  /\ freqs = [c \in Ctl |-> [p \in 1..Len(md) |-> FreqArray(md[p])]]
  /\ station = [c \in Ctl |-> st]
  /\ _cal_set = [c \in Ctl |-> [p \in 1..Len(md) |-> FALSE]]
  /\ _gain = [c \in Ctl |-> 1]
  /\ _weighting = [c \in Ctl |-> [i \in 1..(NSTAND * NPOL) |-> 1]]
  /\ calfiles = allfiles
  /\ pc = [c \in Ctl |-> "idle"]
  /\ idx = [c \in Ctl |-> 0]
  /\ args = [c \in Ctl |-> NoArgs]
  /\ lastOp = [c \in Ctl |-> "none"]
  /\ ret = [c \in Ctl |-> "none"]
  /\ calls = [c \in Ctl |-> [p \in 1..Len(md) |-> 0]]
  /\ warns = [c \in Ctl |-> [p \in 1..Len(md) |-> 0]]
  /\ failedP = [c \in Ctl |-> {}]
  /\ policyWarn = [c \in Ctl |-> {}]
  /\ tracker = TrackerIdle

Constructed(md, tab, bm, st, files) ==
  ConstructedWith(md, tab, bm, st, [c \in Ctl |-> IF c = 1 THEN files ELSE <<>>])

\* ------------------------------------------------------------ _freq_to_pipeline
\* The result when no pipeline matches (the code raises ValueError).
NotFound == 0

\* Mutant of InRange: the upper bound is exclusive.
InRange_exclusive(f, freq) == f >= freq[1] /\ f < freq[Len(freq)]

\* freq_to_find >= freq[0] and freq_to_find <= freq[-1]
InRange(f, freq) == f >= freq[1] /\ f <= freq[Len(freq)]

\* for i,freq in enumerate(self.freqs): the scan from position i on.
\* Positions are 1-based here: result i is Python index i-1.
RECURSIVE ScanFreqs(_, _, _)
ScanFreqs(fs, f, i) ==
  IF i > Len(fs) THEN NotFound
  ELSE IF InRange(f, fs[i]) THEN i
  ELSE ScanFreqs(fs, f, i + 1)

_freq_to_pipeline(c, f) == ScanFreqs(freqs[c], f, 1)

\* A call of _freq_to_pipeline(freq_to_find) by a user of the controller.
lookup_pipeline(c, f) ==
  /\ Enter(c, "_freq_to_pipeline", {})
  /\ args' = [args EXCEPT ![c] = [NoArgs EXCEPT !.freq = f,
                                                !.found = _freq_to_pipeline(c, f)]]
  /\ ret' = [ret EXCEPT ![c] =
               IF _freq_to_pipeline(c, f) = NotFound THEN "raised" ELSE "returned"]
  /\ UNCHANGED <<pipeVars, lock, selfVars, pc, idx, calls, warns, failedP, tracker>>

\* ------------------------------------------------------------ set_beam_calibration
\* A calibration table is given by its CHAN_FREQ column (calfreq), of
\* NCHAN_PIPELINE*NPIPELINE_SUBBAND channels.
CalTable(chan0) ==
  [k \in 1..(NCHAN_PIPELINE * NPIPELINE_SUBBAND) |-> chan_to_freq(chan0 + (k - 1))]

\* center_freq = calfreq[i*NCHAN_PIPELINE:(i+1)*NCHAN_PIPELINE]; center_freq[size//2]
\* for block i = 0..NPIPELINE_SUBBAND-1.
CenterFreq(calfreq, i) == calfreq[i * NCHAN_PIPELINE + (NCHAN_PIPELINE \div 2) + 1]

\* The pipeline each block's centre maps to (NotFound when the lookup raises).
BlockPipeline(c, calfreq) ==
  [b \in 1..NPIPELINE_SUBBAND |-> _freq_to_pipeline(c, CenterFreq(calfreq, b - 1))]

IsFound(j) == j # NotFound

\* Mutant of SubbandPipelines: a block whose lookup fails yields index -1,
\* the last pipeline of the fleet.
SubbandPipelines_unfiltered(c, calfreq) ==
  [b \in 1..NPIPELINE_SUBBAND |->
     IF IsFound(BlockPipeline(c, calfreq)[b])
       THEN BlockPipeline(c, calfreq)[b] ELSE Len(freqs[c])]

\* subband_pipelines: the pipelines found, in block order, the blocks whose
\* lookup raised ValueError left out.
SubbandPipelines(c, calfreq) == SelectSeq(BlockPipeline(c, calfreq), IsFound)

\* The coefficient block sent for entry i (0-based) of subband_pipelines:
\* caldata[j, i*NCHAN_PIPELINE:(i+1)*NCHAN_PIPELINE, pol]
SentBlock(i) == i

\* update_calibration_gains(slot, antpol, cal) on a pipeline's gain store g.
PutGain(g, slot, antpol, blk) ==
  {r \in g : ~(r[1] = slot /\ r[2] = antpol)} \cup {<<slot, antpol, blk>>}

\* Most remote-call failures in one calibration push.
MaxFail == 1

WarnTotal(c) ==
  LET RECURSIVE Sum(_)
      Sum(n) == IF n = 0 THEN 0 ELSE warns[c][n] + Sum(n - 1)
  IN Sum(npipe)

\* set_beam_calibration(caltable) for the next table of calfiles, up to the
\* first remote call.
set_beam_calibration(c) ==
  /\ Len(calfiles[c]) > 0
  /\ LET calfreq == Head(calfiles[c])
         sub == SubbandPipelines(c, calfreq) IN
     /\ Enter(c, "set_beam_calibration",
              IF Len(sub) # NPIPELINE_SUBBAND THEN {"subband pipeline count"} ELSE {})
     /\ Broadcast(c)
     /\ args' = [args EXCEPT ![c] = [NoArgs EXCEPT !.sub = sub,
                                                   !.calfreq = calfreq]]
     /\ IF Len(sub) = 0
          THEN /\ Return(c, "returned")
               /\ idx' = idx
          ELSE /\ pc' = [pc EXCEPT ![c] = "update_calibration_gains"]
               /\ ret' = [ret EXCEPT ![c] = "running"]
               /\ idx' = [idx EXCEPT ![c] = 1]
  /\ calfiles' = [calfiles EXCEPT ![c] = Tail(@)]
  /\ UNCHANGED <<pipeVars, lock, beam, freqs, station, _cal_set, _gain, _weighting,
                 tracker>>

\* self._cal_set[i] = True after the antenna loop of entry i of
\* subband_pipelines (position i here is Python index i-1).
MarkCalibrated(c, i) == _cal_set' = [_cal_set EXCEPT ![c][i] = TRUE]

\* p.beamform.update_calibration_gains(2*(self.beam-1)+pol, NPOL*j+pol, cal)
\* returns or raises; then the loops over pol, j and subband_pipelines advance.
update_calibration_gains(c) ==
  /\ pc[c] = "update_calibration_gains"
  /\ LET a == args[c]
         i == idx[c]
         p == a.sub[i]
         lastOfPipeline == a.pol + 1 = NPOL /\ a.ant + 1 = NSTAND IN
     /\ \/ /\ calGains' = [calGains EXCEPT ![p] =
                 PutGain(@, BeamSlot(beam[c], a.pol), NPOL * a.ant + a.pol,
                         SentBlock(i - 1))]
           /\ Received(c, p)
           /\ UNCHANGED <<warns, failedP>>
        \/ /\ WarnTotal(c) < MaxFail
           /\ AllowedPipelineFailure_exit(c, p)
           /\ UNCHANGED <<calGains, calls>>
     /\ IF ~lastOfPipeline
          THEN /\ args' = [args EXCEPT
                    ![c].pol = (a.pol + 1) % NPOL,
                    ![c].ant = IF a.pol + 1 = NPOL THEN a.ant + 1 ELSE a.ant]
               /\ UNCHANGED <<pc, idx, ret, _cal_set>>
          ELSE IF i > Len(_cal_set[c])
            THEN /\ Return(c, "raised")               \* IndexError
                 /\ UNCHANGED <<idx, args, _cal_set>>
            ELSE /\ MarkCalibrated(c, i)
                 /\ args' = [args EXCEPT ![c].pol = 0, ![c].ant = 0]
                 /\ IF i < Len(a.sub)
                      THEN /\ idx' = [idx EXCEPT ![c] = i + 1]
                           /\ UNCHANGED <<pc, ret>>
                      ELSE /\ idx' = [idx EXCEPT ![c] = 0]
                           /\ Return(c, "returned")
  /\ UNCHANGED <<npipe, bifrost, destTab, vlbiDest, bfSlots, lock, beam, freqs,
                 station, _gain, _weighting, calfiles, lastOp, policyWarn, tracker>>

\* ------------------------------------------------------------ Spec: one controller
\* Delay vectors a caller passes to set_beam_delays: one of the right size and
\* one of the wrong size.
DelayArgs == { [i \in 1..(NSTAND * NPOL) |-> i \div NPOL], <<0>> }

Init ==
  \E n \in 1..MaxPipe, tab \in InitTables, b \in {1, 2} :
    Constructed(TiledFleet(n), tab, [c \in Ctl |-> IF c = 1 THEN b ELSE 3 - b],
                DefaultStation, <<>>)

Next ==
  \/ \E d \in {<<"10.41.0.25", 20001>>} : set_beam_dest(1, d[1], d[2])
  \/ BeamDestLockAcquire(1)
  \/ get_bifrost_status(1)
  \/ extend_loop(1)
  \/ set_destination(1)
  \/ \E d \in {<<"10.41.0.25", 21001>>} : set_beam_vlbi_dest(1, d[1], d[2])
  \/ vlbi_set_destination(1)
  \/ \E d \in DelayArgs, pol \in 0..(NPOL - 1) : set_beam_delays(1, d, pol)
  \/ update_delays(1)
  \/ pb_finish(1)

Spec == Init /\ [][Next]_vars

\* ------------------------------------------------------------ SpecVlbi: VLBI destination
\* Two controllers of distinct beams, at most one of them of beam 1, set the
\* VLBI destination, any number of times, with either destination.
InitVlbi ==
  \E n \in 1..MaxPipe,
     bm \in {[c \in Ctl |-> c], [c \in Ctl |-> 3 - c],
             [c \in Ctl |-> IF c = 1 THEN NDEST ELSE 3]} :
    Constructed(TiledFleet(n), FullTable, bm, DefaultStation, <<>>)

NextVlbi ==
  \E c \in Ctl :
    \/ \E d \in VlbiArgs : set_beam_vlbi_dest(c, d[1], d[2])
    \/ vlbi_set_destination(c)

SpecVlbi == InitVlbi /\ [][NextVlbi]_vars

\* ------------------------------------------------------------ SpecDest: two controllers
\* Two controllers with distinct beam ids run set_beam_dest concurrently
\* against the same pipelines.
InitDest ==
  \E n \in 1..MaxPipe, tab \in InitTables,
     bm \in {[c \in Ctl |-> c], [c \in Ctl |-> IF c = 1 THEN NDEST ELSE 1]} :
    Constructed(TiledFleet(n), tab, bm, DefaultStation, <<>>)

NextDest ==
  \E c \in Ctl :
    \/ \E d \in DestArgs : set_beam_dest(c, d[1], d[2])
    \/ BeamDestLockAcquire(c)
    \/ get_bifrost_status(c)
    \/ extend_loop(c)
    \/ set_destination(c)

SpecDest == InitDest /\ [][NextDest]_vars

\* ------------------------------------------------------------ SpecCal: calibration
\* largest fleet of the calibration specification
MaxPipeCal == 3
\* most calibration tables found by create_and_calibrate
MaxCalFiles == 1

\* Calibration tables starting one pipeline below the band, at the band's
\* start, and one pipeline into it.
CalTables == { CalTable(k * NCHAN_PIPELINE) : k \in -1..1 }

RECURSIVE SeqsUpTo(_, _)
SeqsUpTo(S, n) ==
  IF n = 0 THEN {<<>>}
  ELSE SeqsUpTo(S, n - 1) \cup
       {Append(q, x) : q \in {r \in SeqsUpTo(S, n - 1) : Len(r) = n - 1}, x \in S}

\* create_and_calibrate: a new controller and the sorted list of the
\* calibration tables found, each then passed to set_beam_calibration.
InitCal ==
  \E n \in 1..MaxPipeCal, files \in SeqsUpTo(CalTables, MaxCalFiles) \ {<<>>} :
    Constructed(TiledFleet(n), FullTable, [c \in Ctl |-> c], DefaultStation, files)

NextCal ==
  \/ set_beam_calibration(1)
  \/ update_calibration_gains(1)

SpecCal == InitCal /\ [][NextCal]_vars

\* ------------------------------------------------------------ SpecCalPoint: calibrate, then point
\* create_and_calibrate followed by pointings of the controller it returns,
\* in a direction above the horizon or in one below it.
NextCalPoint ==
  \/ set_beam_calibration(1)
  \/ update_calibration_gains(1)
  \/ \E dir \in {<<3, 0, 4>>, <<3, 0, -4>>} : set_beam_pointing(1, dir)
  \/ update_delays(1)
  \/ pb_finish(1)

SpecCalPoint == InitCal /\ [][NextCalPoint]_vars

\* ------------------------------------------------------------ SpecFreq: lookups
\* most channels below a pipeline's first channel
MaxChan0 == 3

\* Fleets whose pipelines report any first channel up to MaxChan0 and any
\* channel count from 1 to NCHAN_PIPELINE: overlapping, gapped and tiled.
AnyFleets(n) ==
  [1..n -> [chan0 : 0..MaxChan0, nchan : 1..NCHAN_PIPELINE]]

InitFreq ==
  \E n \in 1..MaxPipe : \E md \in AnyFleets(n) :
    Constructed(md, FullTable, [c \in Ctl |-> c], DefaultStation, <<>>)

NextFreq ==
  \E f \in 0..chan_to_freq(MaxChan0 + NCHAN_PIPELINE) : lookup_pipeline(1, f)

SpecFreq == InitFreq /\ [][NextFreq]_vars

\* ------------------------------------------------------------ BeamTracker.track
\* latest wall clock time modelled
MaxTime == 5
\* largest update_interval and duration, in sleep increments
MaxInterval == 2
MaxDuration == 3

\* The direction the target is resolved to (above the horizon).
TrackDir == <<3, 0, 4>>

\* track(target, duration) with duration > 0 up to "t = time.time()".
track(ui, duration) ==
  /\ tracker.pc = "idle"
  /\ tracker' = [tracker EXCEPT !.pc = "loop", !.update_interval = ui,
                                !.t_stop = tracker.now + duration,
                                !.t = tracker.now]
  /\ UNCHANGED <<pipeVars, lock, selfVars, ctlVars>>

\* while t < t_stop: t_mark = time.time(); ... set_beam_pointing(az, alt)
TrackPoint ==
  /\ tracker.pc = "loop"
  /\ tracker.t < tracker.t_stop
  /\ Pointing(1, TrackDir)
  /\ tracker' = [tracker EXCEPT !.pc = "pointing", !.t_mark = tracker.now]

\* while t < t_stop: the condition is false, track returns.
TrackStop ==
  /\ tracker.pc = "loop"
  /\ ~(tracker.t < tracker.t_stop)
  /\ tracker' = [tracker EXCEPT !.pc = "done"]
  /\ UNCHANGED <<pipeVars, lock, selfVars, ctlVars>>

\* Wall clock time passes while a remote call of the pointing update is in
\* progress.
PointingTakesTime ==
  /\ tracker.pc = "pointing"
  /\ pc[1] = "update_delays"
  /\ tracker.now < MaxTime
  /\ tracker' = [tracker EXCEPT !.now = @ + 1]
  /\ UNCHANGED <<pipeVars, lock, selfVars, ctlVars>>

\* set_beam_pointing has returned:
\* t_used = time.time() - t_mark; t_sleep_until = t + self.update_interval - t_used
TrackPointed ==
  /\ tracker.pc = "pointing"
  /\ pc[1] = "idle"
  /\ tracker' = [tracker EXCEPT
        !.pc = "sleep",
        !.t_used = tracker.now - tracker.t_mark,
        !.t_sleep_until = tracker.t + tracker.update_interval
                          - (tracker.now - tracker.t_mark)]
  /\ UNCHANGED <<pipeVars, lock, selfVars, ctlVars>>

\* while t < t_sleep_until and t < t_stop: time.sleep(0.01); t = time.time()
TrackSleep ==
  /\ tracker.pc = "sleep"
  /\ tracker.t < tracker.t_sleep_until /\ tracker.t < tracker.t_stop
  /\ tracker.now < MaxTime
  /\ tracker' = [tracker EXCEPT !.now = @ + 1, !.t = tracker.now + 1]
  /\ UNCHANGED <<pipeVars, lock, selfVars, ctlVars>>

\* The sleep loop's condition is false: back to the head of the outer loop.
TrackWake ==
  /\ tracker.pc = "sleep"
  /\ ~(tracker.t < tracker.t_sleep_until /\ tracker.t < tracker.t_stop)
  /\ tracker' = [tracker EXCEPT !.pc = "loop"]
  /\ UNCHANGED <<pipeVars, lock, selfVars, ctlVars>>

\* KeyboardInterrupt raised in the tracking loop outside any
\* "with AllowedPipelineFailure" block (the loop head, the sleep, or
\* set_beam_delays between two remote calls): it reaches
\* "except KeyboardInterrupt: pass" and track returns.
KeyboardInterruptOutside ==
  /\ ~tracker.cancelled
  /\ \/ tracker.pc \in {"loop", "sleep"}
     \/ tracker.pc = "pointing" /\ pc[1] = "pb_finish"
  /\ tracker' = [tracker EXCEPT !.pc = "done", !.cancelled = TRUE]
  /\ pc' = [pc EXCEPT ![1] = "idle"]
  /\ ret' = [ret EXCEPT ![1] = IF pc[1] = "idle" THEN @ ELSE "raised"]
  /\ UNCHANGED <<pipeVars, lock, selfVars, idx, args, lastOp, calls, warns,
                 failedP, policyWarn>>

\* KeyboardInterrupt raised while a remote update_delays call is in progress,
\* inside "with AllowedPipelineFailure(p)": __exit__ gets it as exc_type.
KeyboardInterruptInCall ==
  /\ ~tracker.cancelled
  /\ tracker.pc = "pointing"
  /\ UpdateDelaysReturn(1, FALSE)
  /\ tracker' = [tracker EXCEPT !.cancelled = TRUE]

InitTrack ==
  Constructed(TiledFleet(MaxPipe), FullTable, [c \in Ctl |-> c], DefaultStation, <<>>)

NextTrack ==
  \/ \E ui \in 1..MaxInterval, d \in 1..MaxDuration : track(ui, d)
  \/ TrackPoint
  \/ TrackStop
  \/ PointingTakesTime
  \/ update_delays(1)
  \/ pb_finish(1)
  \/ TrackPointed
  \/ TrackSleep
  \/ TrackWake
  \/ KeyboardInterruptOutside
  \/ KeyboardInterruptInCall

SpecTrack == InitTrack /\ [][NextTrack]_vars

\* ------------------------------------------------------------ SpecCadence: uninterrupted tracking
\* largest update_interval and duration of the cadence specification, in
\* sleep increments
MaxCadence == 5

\* A tracker on a fleet of one pipeline, left to run without control-C.
InitCadence ==
  Constructed(TiledFleet(1), FullTable, [c \in Ctl |-> c], DefaultStation, <<>>)

NextCadence ==
  \/ \E ui \in 1..MaxCadence, d \in 1..MaxCadence : track(ui, d)
  \/ TrackPoint
  \/ TrackStop
  \/ PointingTakesTime
  \/ update_delays(1)
  \/ pb_finish(1)
  \/ TrackPointed
  \/ TrackSleep
  \/ TrackWake

SpecCadence == InitCadence /\ [][NextCadence]_vars

\* ------------------------------------------------------------ SpecPoint: pointing
\* Antenna positions (east, north, zenith) the station may have.
AntPositions == {<<0, 0, 0>>, <<0, 0, 10>>, <<3, 4, 0>>, <<-5, 2, 1>>}

\* Pointing directions: zenith, three directions above the horizon, one on
\* the horizon, and one below it (refused by the assertion).
PointingDirs ==
  {<<0, 0, 5>>, <<3, 0, 4>>, <<0, 4, 3>>, <<-4, 0, 3>>, <<0, -5, 0>>, <<3, 0, -4>>}

InitPoint ==
  \E st \in [1..NSTAND -> AntPositions] :
    Constructed(TiledFleet(1), FullTable, [c \in Ctl |-> c], st, <<>>)

NextPoint ==
  \/ \E dir \in PointingDirs : set_beam_pointing(1, dir)
  \/ update_delays(1)
  \/ pb_finish(1)

SpecPoint == InitPoint /\ [][NextPoint]_vars

\* ------------------------------------------------------------ SpecNorm: normalization
\* most applications of the normalization step to one vector
MaxNormalize == 3

\* Entries of the delay vectors normalized.
DelayVals == {-3, 0, 1, 4}

\* delays = numpy.repeat(delays, NPOL): the array of NSTAND*NPOL entries the
\* normalization step is applied to; hist keeps it and its successive values.
delays_array(c, x) ==
  /\ lastOp[c] = "none"
  /\ Enter(c, "delays", {})
  /\ args' = [args EXCEPT ![c] = [NoArgs EXCEPT !.hist = <<x>>]]
  /\ UNCHANGED <<pipeVars, lock, selfVars, pc, idx, ret, calls, warns, failedP,
                 tracker>>

\* delays = delays.max() - delays, applied to the current value of the array.
delays_normalize(c) ==
  /\ lastOp[c] = "delays"
  /\ Len(args[c].hist) <= MaxNormalize
  /\ args' = [args EXCEPT ![c].hist =
                 Append(@, Normalize(args[c].hist[Len(args[c].hist)]))]
  /\ UNCHANGED <<pipeVars, lock, selfVars, pc, idx, lastOp, ret, calls, warns,
                 failedP, policyWarn, tracker>>

InitNorm ==
  Constructed(TiledFleet(1), FullTable, [c \in Ctl |-> c], DefaultStation, <<>>)

NextNorm ==
  \/ \E x \in [1..(NSTAND * NPOL) -> DelayVals] : delays_array(1, x)
  \/ delays_normalize(1)

SpecNorm == InitNorm /\ [][NextNorm]_vars

\* ------------------------------------------------------------ SpecGain: gain and weighting
\* largest gain passed to set_beam_gain
MaxGain == 2

NextGain ==
  \/ \E g \in -1..MaxGain : set_beam_gain(1, g)
  \/ \E fnc \in WeightFns : set_beam_weighting(1, fnc)
  \/ \E dir \in {<<3, 0, 4>>} : set_beam_pointing(1, dir)
  \/ update_delays(1)
  \/ pb_finish(1)

SpecGain == InitNorm /\ [][NextGain]_vars

\* ------------------------------------------------------------ SpecSlots: two beams, same pipelines
\* The direction each controller points its beam in.
BeamDir(c) == IF c = 1 THEN <<3, 0, 4>> ELSE <<0, 4, 3>>

\* The beam ids of the two controllers: the last two of the range, whose
\* slots are adjacent and reach the top of the slot range.
BeamPairs == { [c \in Ctl |-> NDEST - 2 + c] }

\* Two controllers of distinct beams, each created by create_and_calibrate
\* with one calibration table, calibrate and point against the same pipeline.
InitSlots ==
  \E bm \in BeamPairs :
    ConstructedWith(TiledFleet(1), FullTable, bm, DefaultStation,
                    [c \in Ctl |-> <<CalTable(0)>>])

NextSlots ==
  \E c \in Ctl :
    \/ set_beam_calibration(c)
    \/ update_calibration_gains(c)
    \/ set_beam_pointing(c, BeamDir(c))
    \/ update_delays(c)
    \/ pb_finish(c)

SpecSlots == InitSlots /\ [][NextSlots]_vars

\* ============================================================ claims

\* A fleet-wide broadcast of controller c has visited every pipeline.
BroadcastDone(c) ==
  \/ pc[c] = "pb_finish"
  \/ /\ pc[c] = "idle"
     /\ ret[c] = "returned"
     /\ lastOp[c] \in {"set_beam_dest", "set_beam_vlbi_dest", "set_beam_delays"}

\* C1: when a broadcast (set_beam_delays, set_beam_dest, set_beam_vlbi_dest)
\* has gone through the fleet, every pipeline whose remote call did not raise
\* has received the command exactly once and is named by no warning, every
\* pipeline whose call raised is named by exactly one warning, and the
\* operation has not raised: an operation that raised did so on its
\* argument check, before any pipeline was commanded.
C1_BroadcastTolerant ==
  \A c \in Ctl :
    /\ BroadcastDone(c) =>
         \A p \in Pipes :
           /\ p \notin failedP[c] => calls[c][p] = 1 /\ warns[c][p] = 0
           /\ p \in failedP[c] => calls[c][p] = 0 /\ warns[c][p] = 1
    /\ pc[c] \in {"get_bifrost_status", "set_destination", "vlbi_set_destination",
                  "update_delays", "pb_finish"} => ret[c] = "running"
    /\ ret[c] = "raised" /\ lastOp[c] \in {"set_beam_dest", "set_beam_vlbi_dest",
                                            "set_beam_delays"} =>
         /\ \/ lastOp[c] = "set_beam_vlbi_dest" /\ beam[c] # 1
            \/ lastOp[c] = "set_beam_delays" /\ Len(args[c].delays) # NSTAND * NPOL
         /\ \A p \in Pipes : calls[c][p] = 0 /\ warns[c][p] = 0

\* C1 witness: a set_beam_dest broadcast has returned with one pipeline
\* failing and another one served.
C1_Witness ==
  /\ pc[1] = "idle" /\ lastOp[1] = "set_beam_dest" /\ ret[1] = "returned"
  /\ \E p, q \in Pipes : p \in failedP[1] /\ q \notin failedP[1] /\ calls[1][q] = 1

\* C2 (as claimed): a step of a calibration push that sets the completeness
\* flag of fleet pipeline k to true is never one of a push in which a call
\* to pipeline k raised.
C2_CalibratedOnlyWithoutFailure ==
  [][\A k \in Pipes :
       (~_cal_set[1][k] /\ _cal_set'[1][k]) => k \notin failedP'[1]]_vars

\* The calibration gains pipeline k holds for controller c's beam.
GainsOf(c, k) ==
  {r \in calGains[k] : r[1] \in {BeamSlot(beam[c], pol) : pol \in 0..(NPOL - 1)}}

\* Pipeline k received a calibration push of controller c / holds a gain for
\* every antenna and polarization of it.
PushedTo(c, k) == GainsOf(c, k) # {}
CompletePush(c, k) ==
  \A j \in 0..(NSTAND - 1), pol \in 0..(NPOL - 1) :
    \E r \in calGains[k] : r[1] = BeamSlot(beam[c], pol) /\ r[2] = NPOL * j + pol

\* C3 (as claimed): between calibration pushes, the flag of fleet pipeline k
\* is true only if pipeline k itself received a push, and the flag of every
\* completely pushed pipeline is true (so that cal_set holds once every
\* pipeline of the fleet is completely pushed).
C3_CalSetPerFleetPipeline ==
  pc[1] = "idle" =>
    \A k \in Pipes :
      /\ _cal_set[1][k] => PushedTo(1, k)
      /\ CompletePush(1, k) => _cal_set[1][k]

\* Both controllers have returned from set_beam_dest and no pipeline failed.
BothDestinationsSet ==
  \A c \in Ctl :
    /\ pc[c] = "idle" /\ lastOp[c] = "set_beam_dest" /\ ret[c] = "returned"
    /\ failedP[c] = {}

\* C4: after two controllers with distinct beams have both returned from
\* set_beam_dest without a pipeline failing, every pipeline's table has 16
\* slots and holds each controller's address and port in that
\* controller's slot beam-1.
C4_NoLostDestination ==
  BothDestinationsSet =>
    \A p \in Pipes, c \in Ctl :
      /\ Len(destTab[p].addrs) = NDEST /\ Len(destTab[p].ports) = NDEST
      /\ destTab[p].addrs[beam[c]] = args[c].addr
      /\ destTab[p].ports[beam[c]] = args[c].port

\* C4 witness: both have returned, with different destinations, on a fleet of
\* more than one pipeline.
C4_Witness ==
  /\ BothDestinationsSet
  /\ npipe > 1
  /\ args[1].addr # args[2].addr

\* C5 (as claimed): no controller holds _BEAM_DEST_LOCK while one of its
\* remote calls get_bifrost_status / set_destination is in progress.
C5_LockNeverAcrossRemoteCall ==
  \A c \in Ctl :
    pc[c] \in {"get_bifrost_status", "set_destination"} => lock # c

\* The pipelines whose range [f_lo, f_hi], as reported, contains f.
Containing(f) ==
  {p \in Pipes : /\ chan_to_freq(bifrost[p].chan0) <= f
                 /\ f <= chan_to_freq(bifrost[p].chan0 + bifrost[p].nchan - 1)}

LookupDone == lastOp[1] = "_freq_to_pipeline"

\* C8: _freq_to_pipeline(f) raises exactly when no pipeline's range contains
\* f, and otherwise returns the first pipeline, in fleet order, whose range
\* contains f.
C8_FirstContainingPipeline ==
  LookupDone =>
    LET M == Containing(args[1].freq) IN
    /\ ret[1] = "raised" <=> M = {}
    /\ ret[1] = "raised" => args[1].found = NotFound
    /\ M # {} => ret[1] = "returned" /\ args[1].found \in M
                 /\ \A p \in M : args[1].found <= p

\* C8 witness: a frequency two pipelines contain was looked up and the
\* second pipeline was not the one returned.
C8_Witness ==
  /\ LookupDone
  /\ Cardinality(Containing(args[1].freq)) > 1
  /\ args[1].found = 1

\* Each pipeline's first channel directly follows the previous one's last.
ContiguousChannels ==
  \A p \in Pipes : p > 1 => bifrost[p].chan0 = bifrost[p - 1].chan0 + bifrost[p - 1].nchan

\* C9 (as claimed): on a fleet serving contiguous channel ranges every
\* frequency from the lowest to the highest frequency of the band maps to
\* exactly one pipeline.
C9_BandFullyMapped ==
  ( /\ LookupDone
    /\ ContiguousChannels
    /\ chan_to_freq(bifrost[1].chan0) <= args[1].freq
    /\ args[1].freq <= chan_to_freq(bifrost[npipe].chan0 + bifrost[npipe].nchan - 1) )
  => /\ Cardinality(Containing(args[1].freq)) = 1
     /\ args[1].found \in Containing(args[1].freq)

\* C6 (as claimed): track ends once the duration has elapsed: no pointing
\* update is started at or after t_stop.
C6_NoPointingAfterStop ==
  tracker.pc = "pointing" => tracker.t_mark < tracker.t_stop

\* C7 (as claimed): once a KeyboardInterrupt has been delivered, track starts
\* no further pointing update.
C7_NoPointingAfterCancel ==
  [][tracker.cancelled => ~(tracker.pc = "loop" /\ tracker'.pc = "pointing")]_vars

\* A pushed delay vector is realizable: no entry is negative, some entry is
\* zero, and the two polarizations of every antenna carry the same delay.
Realizable(d) ==
  /\ Len(d) = NSTAND * NPOL
  /\ \A i \in 1..Len(d) : d[i] >= 0
  /\ \E i \in 1..Len(d) : d[i] = 0
  /\ \A a \in 1..NSTAND : d[NPOL * (a - 1) + 1] = d[NPOL * a]

\* C10: every delay vector set_beam_pointing pushes, and every one a
\* pipeline holds, is realizable, and the entries of the antennas with the
\* largest zenith-relative geometric delay are zero.
C10_DelaysNonNegative ==
  /\ \A p \in Pipes : \A s \in DOMAIN bfSlots[p] :
       bfSlots[p][s] # <<>> => Realizable(bfSlots[p][s][1])
  /\ ( /\ lastOp[1] = "set_beam_pointing"
       /\ pc[1] \in {"update_delays", "pb_finish"} )
     => /\ Realizable(args[1].delays)
        /\ \A a \in 1..NSTAND :
             (\A b \in 1..NSTAND : GeomDelay(args[1].dir, station[1][b])
                                     <= GeomDelay(args[1].dir, station[1][a]))
             => args[1].delays[NPOL * a] = 0

\* C10 witness: a pipeline holds, for both polarizations of the beam, a
\* pushed delay vector with a non-zero entry.
C10_Witness ==
  \E p \in Pipes :
    \A pol \in 0..(NPOL - 1) :
      LET e == bfSlots[p][BeamSlot(beam[1], pol)] IN
      e # <<>> /\ \E i \in 1..Len(e[1]) : e[1][i] > 0

\* set_beam_pointing has computed its delay vector and is pushing it.
PointingPushed ==
  /\ lastOp[1] = "set_beam_pointing"
  /\ pc[1] \in {"update_delays", "pb_finish"}

SeqMin(x) == 0 - SeqMax([i \in 1..Len(x) |-> 0 - x[i]])

\* C11 (as claimed): the delay vector the pointing computation produces has
\* its maximum at zero and no entry above zero.
C11_MaxDelayZero ==
  PointingPushed =>
    /\ SeqMax(args[1].delays) = 0
    /\ \A i \in 1..Len(args[1].delays) : args[1].delays[i] <= 0

\* C11 (amended): the delay vector the pointing computation produces has its
\* minimum at zero and no entry below zero; its maximum is the spread of the
\* zenith-relative geometric delays over the antennas.
C11_MinDelayZero ==
  PointingPushed =>
    LET d == args[1].delays
        g == [a \in 1..NSTAND |-> GeomDelay(args[1].dir, station[1][a])] IN
    /\ SeqMin(d) = 0
    /\ \A i \in 1..Len(d) : d[i] >= 0
    /\ SeqMax(d) = SeqMax(g) - SeqMin(g)

\* C11 witness: a pushed vector whose maximum is above zero.
C11_Witness ==
  /\ PointingPushed
  /\ SeqMax(args[1].delays) > 0
  /\ SeqMin(args[1].delays) = 0

\* The n-th value of the array: Normalized(1) is the input, Normalized(2) the
\* input normalized once, and so on.
Normalized(n) == args[1].hist[n]

\* C12 (as claimed): normalizing twice gives the same vector as normalizing
\* once.
C12_NormalizeIdempotent ==
  Len(args[1].hist) >= 3 => Normalized(3) = Normalized(2)

\* C12 (amended): normalizing twice gives the input shifted to a minimum of
\* zero, which is the once-normalized vector only when all entries of the
\* input are equal; normalizing three times gives the same vector as
\* normalizing once.
C12_NormalizeInvolution ==
  LET x == Normalized(1) IN
  /\ Len(args[1].hist) >= 3 =>
       /\ Normalized(3) = [i \in 1..Len(x) |-> x[i] - SeqMin(x)]
       /\ Normalized(3) = Normalized(2) <=> \A i, j \in 1..Len(x) : x[i] = x[j]
  /\ Len(args[1].hist) >= 4 => Normalized(4) = Normalized(2)

\* C12 witness: a vector normalized three times whose second normalization
\* differs from its first.
C12_Witness ==
  /\ Len(args[1].hist) >= 4
  /\ Normalized(3) # Normalized(2)

\* The array of the scenario: one antenna at (0,0,10) m, all others at the
\* origin.
OffsetAnt == <<0, 0, 10>>
OneOffsetArray ==
  /\ Cardinality({a \in 1..NSTAND : station[1][a] = OffsetAnt}) = 1
  /\ \A a \in 1..NSTAND : station[1][a] \in {OffsetAnt, <<0, 0, 0>>}

\* set_beam_pointing(az = 0, alt = 90 degrees) is pushing on that array.
ZenithPushed ==
  /\ PointingPushed
  /\ args[1].dir = <<0, 0, DIR_SCALE>>
  /\ OneOffsetArray

\* The delay pushed for antenna a, which both polarizations carry.
PushedDelay(a) == args[1].delays[NPOL * a]

\* C13 (as claimed): pointing at zenith on that array pushes a delay of 0
\* for the offset antenna and of +10/c for every antenna at the origin
\* (10 m / c is 10 * DIR_SCALE in the model's delay unit).
C13_ZenithOffsetDelay ==
  ZenithPushed =>
    \A a \in 1..NSTAND :
      PushedDelay(a) = IF station[1][a] = OffsetAnt THEN 0 ELSE 10 * DIR_SCALE

\* C13 (amended): pointing at zenith on that array pushes a delay of 0 for
\* every antenna, the offset one and those at the origin alike, and a
\* pipeline served by the push holds that vector.
C13_ZenithAllZero ==
  ZenithPushed =>
    /\ \A i \in 1..(NSTAND * NPOL) : args[1].delays[i] = 0
    /\ \A p \in Pipes :
         (pc[1] = "pb_finish" /\ calls[1][p] = 1) =>
           bfSlots[p][BeamSlot(beam[1], args[1].pol)][1] =
             [i \in 1..(NSTAND * NPOL) |-> 0]

\* C13 witness: the zenith pointing has been pushed for the second
\* polarization to a pipeline.
C13_Witness ==
  /\ ZenithPushed
  /\ pc[1] = "pb_finish" /\ args[1].pol = NPOL - 1
  /\ \E p \in Pipes : calls[1][p] = 1

\* The VLBI set_destination calls made on pipeline p, returned or raised, in
\* controller c's current broadcast.
Commanded(c, p) == calls[c][p] + warns[c][p]

\* C14: set_beam_vlbi_dest on a controller whose beam is not 1 raises with no
\* pipeline commanded, and no pipeline ever gets a VLBI destination from
\* such a controller; on beam 1 the pipelines before the loop position have
\* been commanded once and the others not yet, so that on return every
\* pipeline has been commanded once, and every pipeline whose call returned
\* holds the given address and port.
C14_VlbiBeamOneOnly ==
  /\ (\A c \in Ctl : beam[c] # 1) => \A p \in Pipes : vlbiDest[p] = NoDest
  /\ \A c \in Ctl :
       lastOp[c] = "set_beam_vlbi_dest" =>
         IF beam[c] # 1
           THEN /\ pc[c] = "idle" /\ ret[c] = "raised"
                /\ \A p \in Pipes : Commanded(c, p) = 0
           ELSE /\ ret[c] # "raised"
                /\ \A p \in Pipes :
                     /\ Commanded(c, p) = IF pc[c] = "idle" \/ p < idx[c] THEN 1 ELSE 0
                     /\ calls[c][p] = 1 => vlbiDest[p] = <<args[c].addr, args[c].port>>

\* C14 witness: set_beam_vlbi_dest has returned on beam 1 after commanding a
\* fleet of more than one pipeline, and one pipeline holds another
\* destination than the one given, its call having raised.
C14_Witness ==
  /\ lastOp[1] = "set_beam_vlbi_dest" /\ beam[1] = 1
  /\ pc[1] = "idle" /\ ret[1] = "returned"
  /\ npipe > 1
  /\ \E p, q \in Pipes :
       /\ vlbiDest[p] = <<args[1].addr, args[1].port>> /\ calls[1][p] = 1
       /\ vlbiDest[q] \notin {NoDest, <<args[1].addr, args[1].port>>}

\* Every pipeline of the fleet holds a calibration gain of controller 1's
\* beam for every antenna and polarization.
CalibrationComplete == \A k \in Pipes : CompletePush(1, k)

\* C15 (as claimed): a set_beam_pointing with a valid direction does not
\* raise; it emits the calibration warning exactly when calibration is not
\* complete on all pipelines; and it commands every pipeline once for
\* each polarization, returning after the last one.
C15_WarnsIffUncalibrated ==
  /\ PointingPushed =>
       /\ ret[1] = "running"
       /\ ("Calibration is not set" \in policyWarn[1]) <=> ~CalibrationComplete
       /\ pc[1] = "pb_finish" => \A p \in Pipes : Commanded(1, p) = 1
  /\ ( /\ lastOp[1] = "set_beam_pointing"
       /\ pc[1] = "idle" /\ ret[1] = "returned" )
     => /\ args[1].pol = NPOL - 1
        /\ \A p \in Pipes : Commanded(1, p) = 1

\* A step that is a call of set_beam_gain or set_beam_weighting.
GainOrWeightingCall ==
  /\ pc[1] = "idle" /\ pc'[1] = "idle"
  /\ lastOp'[1] \in {"set_beam_gain", "set_beam_weighting"}

\* The amplitude vector of a pointing update of polarization pol: antenna a
\* (0-based) has gain * weighting[a] at its entry for pol and 0 at the other.
ExpectedAmps(pol) ==
  [i \in 1..(NSTAND * NPOL) |->
     LET a == (i - 1) \div NPOL IN
     IF i = NPOL * a + pol + 1 THEN _gain[1] * _weighting[1][NPOL * a + 1] ELSE 0]

\* C16: a call of set_beam_gain or set_beam_weighting changes no pipeline
\* state and makes no remote call; the stored gain and weighting change in
\* no other step; and a pipeline's delay/amplitude slot changes only on the
\* return of an update_delays call, to the amplitudes gain * weighting[a] for
\* the polarization being updated and 0 for the other.
C16_GainOnlyOnNextPointing ==
  [][ /\ GainOrWeightingCall =>
           /\ UNCHANGED <<pipeVars, calls, warns, failedP>>
      /\ (_gain' # _gain \/ _weighting' # _weighting) => GainOrWeightingCall
      /\ \A p \in Pipes : \A s \in DOMAIN bfSlots[p] :
           bfSlots'[p][s] # bfSlots[p][s] =>
             /\ pc[1] = "update_delays"
             /\ s = BeamSlot(beam[1], args[1].pol)
             /\ bfSlots'[p][s][2] = ExpectedAmps(args[1].pol)
    ]_vars

\* C16 witness: set_beam_gain has stored a gain of 2 while the pipeline
\* still holds the amplitudes of an earlier pointing update made with gain 1.
C16_Witness ==
  /\ lastOp[1] = "set_beam_gain" /\ ret[1] = "returned" /\ _gain[1] = 2
  /\ LET e == bfSlots[1][BeamSlot(beam[1], 0)] IN
     e # <<>> /\ e[2][1] = 1 /\ e[2][2] = 0

\* The pipeline each channel block of the table being pushed maps to, and
\* the pipelines matched by some block.
BlockMap == BlockPipeline(1, args[1].calfreq)
Matched == {BlockMap[b] : b \in 1..NPIPELINE_SUBBAND} \ {NotFound}
MatchedCount == Cardinality({b \in 1..NPIPELINE_SUBBAND : IsFound(BlockMap[b])})

\* C17: a calibration push with fewer than NPIPELINE_SUBBAND blocks matched
\* emits the count warning and does not raise; it commands no unmatched
\* pipeline; and when it has returned every matched pipeline has been
\* commanded once for every antenna and polarization, and holds a gain for
\* each of them if none of its calls raised.
C17_MismatchIsWarning ==
  ( /\ lastOp[1] = "set_beam_calibration"
    /\ MatchedCount < NPIPELINE_SUBBAND )
  => /\ "subband pipeline count" \in policyWarn[1]
     /\ ret[1] \in {"running", "returned"}
     /\ \A p \in Pipes \ Matched : Commanded(1, p) = 0
     /\ pc[1] = "idle" =>
          /\ ret[1] = "returned"
          /\ \A p \in Matched :
               /\ Commanded(1, p) = NSTAND * NPOL
               /\ warns[1][p] = 0 => CompletePush(1, p)

\* C17 witness: a push with one block matched has returned on a fleet of
\* more than one pipeline, the matched pipeline holding a complete set.
C17_Witness ==
  /\ lastOp[1] = "set_beam_calibration" /\ pc[1] = "idle" /\ ret[1] = "returned"
  /\ MatchedCount = 1 /\ npipe > 1
  /\ \E p \in Matched : CompletePush(1, p)

\* C18 (as claimed): every gain a pipeline holds was derived from the
\* channel block whose centre frequency mapped to that pipeline.
C18_BlockOfMatchedPipeline ==
  lastOp[1] = "set_beam_calibration" =>
    \A p \in Pipes : \A r \in calGains[p] : BlockMap[r[3] + 1] = p

\* C19 (as claimed): when a pointing update that took less than
\* update_interval is followed by another one started before the stop time,
\* their start times (t_mark) are update_interval apart, to within one
\* sleep increment.
C19_FixedCadence ==
  [][ ( /\ tracker.pc = "loop" /\ tracker'.pc = "pointing"
        /\ lastOp[1] = "set_beam_pointing"
        /\ tracker.t_used < tracker.update_interval
        /\ tracker.now < tracker.t_stop )
      => LET gap == tracker'.t_mark - tracker.t_mark IN
         /\ gap >= tracker.update_interval - 1
         /\ gap <= tracker.update_interval + 1
    ]_vars

\* The reported list s padded cyclically or cut to 16 entries.
Reported16(s) == [i \in 1..NDEST |-> s[((i - 1) % Len(s)) + 1]]

\* C20 (as claimed): set_beam_dest terminates and releases the lock
\* whatever tables are reported: the padding loop is only ever run on a list
\* it can bring to 16 entries, a controller that is not inside set_beam_dest
\* does not hold the lock, and every table about to be sent has 16
\* addresses and 16 ports that differ from the reported table, padded or
\* cut to 16, only in slot beam-1.
C20_DestTerminates ==
  \A c \in Ctl :
    LET t == destTab[idx[c]] IN
    /\ pc[c] = "extend_loop" => Len(t.addrs) > 0 /\ Len(t.ports) > 0
    /\ pc[c] = "idle" => lock # c
    /\ pc[c] = "set_destination" =>
         /\ Len(args[c].addrs) = NDEST /\ Len(args[c].ports) = NDEST
         /\ \A s \in 1..NDEST :
              s # beam[c] => /\ args[c].addrs[s] = Reported16(t.addrs)[s]
                             /\ args[c].ports[s] = Reported16(t.ports)[s]

\* The slots controller c addresses, one per polarization.
SlotsOf(c) == {BeamSlot(beam[c], pol) : pol \in 0..(NPOL - 1)}

\* The slot is injective over beams 1..16 and polarizations 0..1, and lies
\* in 0..31.
SlotLayout ==
  \A b1, b2 \in 1..NDEST : \A p1, p2 \in 0..(NPOL - 1) :
    /\ BeamSlot(b1, p1) \in 0..(2 * NDEST - 1)
    /\ BeamSlot(b1, p1) = BeamSlot(b2, p2) => b1 = b2 /\ p1 = p2

\* What the pipelines hold is what the owner of each slot pushed: a
\* delay/amplitude slot holds the vectors of the controller and polarization
\* it belongs to, and a calibration gain sits in the slot of some
\* controller for the polarization of its antenna/polarization index.
SlotsHoldOwnersData ==
  \A p \in Pipes :
    /\ \A s \in DOMAIN bfSlots[p] :
         bfSlots[p][s] # <<>> =>
           \E c \in Ctl : \E pol \in 0..(NPOL - 1) :
             /\ s = BeamSlot(beam[c], pol)
             /\ bfSlots[p][s] = <<PointingDelays(c, BeamDir(c)), Amps(c, pol)>>
    /\ \A r \in calGains[p] :
         \E c \in Ctl : r[1] = BeamSlot(beam[c], r[2] % NPOL)

\* A step that changes what pipeline p holds is the return of a remote call
\* of one controller c, changes only the slot of c's beam and current
\* polarization, and that slot is none of another controller's.
WritesOwnSlotOnly ==
  \A p \in Pipes :
    (bfSlots'[p] # bfSlots[p] \/ calGains'[p] # calGains[p]) =>
      \E c \in Ctl :
        LET s == BeamSlot(beam[c], args[c].pol) IN
        /\ \/ pc[c] = "update_delays" /\ idx[c] = p
           \/ pc[c] = "update_calibration_gains" /\ args[c].sub[idx[c]] = p
        /\ \A d \in Ctl \ {c} : s \notin SlotsOf(d)
        /\ \A s2 \in DOMAIN bfSlots[p] : s2 # s => bfSlots'[p][s2] = bfSlots[p][s2]
        /\ {r \in calGains'[p] : r[1] # s} = {r \in calGains[p] : r[1] # s}

\* C21: the slot 2*(beam-1)+pol is injective over beam in 1..16 and pol in
\* 0..1 and lies in 0..31; the two polarizations of a controller use
\* distinct slots and controllers of distinct beams share none; and in any
\* interleaving of the pointing and calibration pushes of two controllers
\* every write goes to the writer's own slot and every slot holds its
\* owner's data.
C21_SlotsNeverShared ==
  /\ [](/\ SlotLayout
        /\ \A c \in Ctl : Cardinality(SlotsOf(c)) = NPOL
        /\ \A c, d \in Ctl : c # d => SlotsOf(c) \cap SlotsOf(d) = {}
        /\ SlotsHoldOwnersData)
  /\ [][WritesOwnSlotOnly]_vars

\* C21 witness: the pipeline holds the delays of both polarizations of both
\* controllers and calibration gains of both, each in its own slot.
C21_Witness ==
  \E p \in Pipes :
    \A c \in Ctl : \A pol \in 0..(NPOL - 1) :
      /\ bfSlots[p][BeamSlot(beam[c], pol)] # <<>>
      /\ \E r \in calGains[p] : r[1] = BeamSlot(beam[c], pol)

====
